---- MODULE Spec2Model ----
(***************************************************************************)
(* Model of wsutil.go: a WebSocket reverse proxy.                          *)
(*                                                                         *)
(* Strings the code inspects character by character (paths, queries,      *)
(* hosts) are sequences of one-character strings.  One session of          *)
(* ReverseProxy.ServeHTTP is modelled statement by statement, together     *)
(* with its two copy goroutines, the error channel, the two connections    *)
(* and the peers at the far end of both connections.                       *)
(***************************************************************************)
EXTENDS Integers, Sequences, FiniteSets, TLC

VARIABLES
    target,       \* the *url.URL captured by the single-host Director
    ErrorLog,     \* p.ErrorLog # nil
    wIsHijacker,  \* the ResponseWriter implements http.Hijacker
    heap,         \* url.URL objects, by address
    r,            \* the caller's *http.Request (its URL field is an address)
    outreq,       \* the per-request copy made by ServeHTTP
    inURL,        \* value of r.URL on entry to ServeHTTP (history)
    pc,           \* position of ServeHTTP
    terminal,     \* terminal state of the session, "none" while running
    logFunc,      \* logger selected at line 69-72
    dialCalls,    \* arguments of every call of the dial function
    d,            \* backend connection: "nil", "open", "closed"
    nc,           \* hijacked client connection: "nil", "open", "closed"
    dCloses,      \* number of d.Close() calls
    ncCloses,     \* number of nc.Close() calls
    resp,         \* status codes written to w by http.Error
    logs,         \* log lines emitted
    hijackCalls,  \* number of hj.Hijack() calls
    writeCalls,   \* number of outreq.Write(d) calls
    errc,         \* the buffered channel of line 113
    recvCount,    \* outcomes received from errc by ServeHTTP
    recvAtClose,  \* recvCount observed by each Close call (history)
    cp,           \* state of each copy goroutine
    outcome,      \* error value each copy goroutine got from io.Copy
    sent,         \* payload bytes the client has sent so far (history)
    clientClosed, \* the client has closed its side
    backendClosed,\* the backend has closed its side
    ncIn,         \* bytes from the client waiting in the client socket
    bufr,         \* bytes read ahead by the server's bufio.Reader
    dIn,          \* bytes written to d, on their way to the backend
    backendRecv,  \* everything the backend has received (history)
    dOut,         \* bytes from the backend waiting in the backend socket
    clientRecv,   \* everything the client has received (history)
    detected,     \* result of IsWebSocketRequest(r), <<>> before the call
    round,        \* how many times ServeHTTP has been entered with r
    firstOut,     \* the rewritten URL of the first round (history)
    rounds        \* terminal states of the earlier rounds (history)

vars == << target, ErrorLog, wIsHijacker, heap, r, outreq, inURL, pc, terminal,
           logFunc, dialCalls, d, nc, dCloses, ncCloses, resp, logs,
           hijackCalls, writeCalls, errc, recvCount, recvAtClose, cp, outcome,
           sent, clientClosed, backendClosed, ncIn, bufr, dIn, backendRecv,
           dOut, clientRecv, detected, round, firstOut, rounds >>

urlVars  == << target, ErrorLog, wIsHijacker, heap, r, outreq, inURL, logFunc >>
connVars == << d, nc, dCloses, ncCloses, recvAtClose >>
chanVars == << errc, recvCount, cp, outcome >>
dataVars == << sent, clientClosed, backendClosed, ncIn, bufr, dIn, backendRecv,
               dOut, clientRecv >>
callVars == << dialCalls, resp, logs, hijackCalls, writeCalls >>
callerVars == << detected, round, firstOut, rounds >>

----------------------------------------------------------------------------
(* Bounds *)

MaxPathLen == 3
MaxQueryLen == 1
MaxPayload == 2
MaxRounds == 2
MaxHeaderValues == 2

----------------------------------------------------------------------------
(* strings *)

HasSuffix(s, suffix) ==
    /\ Len(s) >= Len(suffix)
    /\ SubSeq(s, Len(s) - Len(suffix) + 1, Len(s)) = suffix

HasPrefix(s, prefix) ==
    /\ Len(s) >= Len(prefix)
    /\ SubSeq(s, 1, Len(prefix)) = prefix

Contains(s, c) == \E i \in 1..Len(s) : s[i] = c

SeqsUpTo(S, n) == UNION { [1..k -> S] : k \in 0..n }

----------------------------------------------------------------------------
(* singleJoiningSlash, wsutil.go:36-46 *)

(* the join without the trimming of the duplicated slash *)
singleJoiningSlashNoTrim(a, b) ==
    IF ~HasSuffix(a, <<"/">>) /\ ~HasPrefix(b, <<"/">>)
    THEN a \o <<"/">> \o b
    ELSE a \o b

(* the join without the inserted separator *)
singleJoiningSlashNoInsert(a, b) ==
    IF HasSuffix(a, <<"/">>) /\ HasPrefix(b, <<"/">>)
    THEN a \o SubSeq(b, 2, Len(b))
    ELSE a \o b

singleJoiningSlash(a, b) ==
    LET aslash == HasSuffix(a, <<"/">>)
        bslash == HasPrefix(b, <<"/">>)
    IN  CASE aslash /\ bslash   -> a \o SubSeq(b, 2, Len(b))
          [] ~aslash /\ ~bslash -> a \o <<"/">> \o b
          [] OTHER              -> a \o b

(* the director joining the two queries with "&" in every case *)
directorAlwaysAmp(tgt, u) ==
    [ Scheme   |-> tgt.Scheme,
      Host     |-> tgt.Host,
      Path     |-> singleJoiningSlash(tgt.Path, u.Path),
      RawQuery |-> tgt.RawQuery \o <<"&">> \o u.RawQuery ]

(* the director closure of NewSingleHostReverseProxy, wsutil.go:53-63:     *)
(* the value of *req.URL after the call, from its value u before           *)
director(tgt, u) ==
    [ Scheme   |-> tgt.Scheme,
      Host     |-> tgt.Host,
      Path     |-> singleJoiningSlash(tgt.Path, u.Path),
      RawQuery |-> IF tgt.RawQuery = <<>> \/ u.RawQuery = <<>>
                   THEN tgt.RawQuery \o u.RawQuery
                   ELSE tgt.RawQuery \o <<"&">> \o u.RawQuery ]

(* the dial address with the default port appended in every case *)
dialHostAlways(host) == host \o <<":", "8", "0">>

(* dial address, wsutil.go:77-81 *)
dialHost(host) ==
    IF ~Contains(host, ":") THEN host \o <<":", "8", "0">> ELSE host

----------------------------------------------------------------------------
(* IsWebSocketRequest, wsutil.go:125-133 *)

upperLetters == << "A", "B", "C", "D", "E", "F", "G", "H", "I", "J", "K", "L", "M",
                   "N", "O", "P", "Q", "R", "S", "T", "U", "V", "W", "X", "Y", "Z" >>
lowerLetters == << "a", "b", "c", "d", "e", "f", "g", "h", "i", "j", "k", "l", "m",
                   "n", "o", "p", "q", "r", "s", "t", "u", "v", "w", "x", "y", "z" >>

(* strings.ToLower *)
ToLower(s) ==
    [ i \in 1..Len(s) |->
        IF \E k \in 1..Len(upperLetters) : upperLetters[k] = s[i]
        THEN lowerLetters[CHOOSE k \in 1..Len(upperLetters) : upperLetters[k] = s[i]]
        ELSE s[i] ]

(* http.Header.Get: the first value stored under the key, "" if none *)
HeaderGet(h, key) == IF h[key] = <<>> THEN <<>> ELSE h[key][1]

strUpgrade   == << "u", "p", "g", "r", "a", "d", "e" >>
strWebsocket == << "w", "e", "b", "s", "o", "c", "k", "e", "t" >>

(* the detector comparing the Upgrade header without case folding *)
IsWebSocketRequestNoFold(req) ==
    IF ToLower(HeaderGet(req.Header, "Connection")) # strUpgrade
    THEN FALSE
    ELSE IF HeaderGet(req.Header, "Upgrade") # strWebsocket
         THEN FALSE
         ELSE TRUE

IsWebSocketRequest(req) ==
    IF ToLower(HeaderGet(req.Header, "Connection")) # strUpgrade
    THEN FALSE
    ELSE IF ToLower(HeaderGet(req.Header, "Upgrade")) # strWebsocket
         THEN FALSE
         ELSE TRUE

----------------------------------------------------------------------------
(* inputs *)

HeaderKeys == {"Connection", "Upgrade"}

HeaderValues ==
    { strUpgrade,
      << "U", "p", "g", "r", "a", "d", "e" >>,
      strWebsocket,
      << "W", "e", "b", "S", "o", "c", "k", "e", "t" >>,
      << "k", "e", "e", "p", "-", "a", "l", "i", "v", "e" >>,
      << "k", "e", "e", "p", "-", "a", "l", "i", "v", "e", ",", " ",
         "U", "p", "g", "r", "a", "d", "e" >> }

Headers == [HeaderKeys -> SeqsUpTo(HeaderValues, MaxHeaderValues)]

SessionHeader ==
    [ k \in HeaderKeys |->
        IF k = "Connection" THEN << << "U", "p", "g", "r", "a", "d", "e" >> >>
                            ELSE << strWebsocket >> ]

PathChars == {"/", "a", "b"}
Paths     == SeqsUpTo(PathChars, MaxPathLen)
QueryChars == {"x", "y"}
Queries   == SeqsUpTo(QueryChars, MaxQueryLen)
Hosts     == { <<"h">>, <<"h", ":", "9">> }

Tasks == {"c2b", "b2c"}    \* cp(d, nc) and cp(nc, d)

ReqBytes == 0              \* the serialised request written by outreq.Write
ErrcCap  == 2

SessionTargets ==
    { [Scheme |-> sch, Host |-> h, Path |-> <<"/", "a">>, RawQuery |-> <<"x">>] :
        sch \in {"ws", "wss"}, h \in Hosts }

SessionURLs ==
    { [Scheme |-> "", Host |-> <<>>, Path |-> <<"/", "a">>, RawQuery |-> <<"x">>] }

InitSession(tgt, u, h) ==
    /\ target = tgt
    /\ ErrorLog \in BOOLEAN
    /\ wIsHijacker \in BOOLEAN
    /\ heap = [a \in {1} |-> u]
    /\ r = [URL |-> 1, Header |-> h]
    /\ outreq = [URL |-> 0, Header |-> h]
    /\ inURL = u
    /\ pc = "Idle"
    /\ terminal = "none"
    /\ logFunc = "unset"
    /\ dialCalls = <<>>
    /\ d = "nil"
    /\ nc = "nil"
    /\ dCloses = 0
    /\ ncCloses = 0
    /\ resp = <<>>
    /\ logs = <<>>
    /\ hijackCalls = 0
    /\ writeCalls = 0
    /\ errc = <<>>
    /\ recvCount = 0
    /\ recvAtClose = <<>>
    /\ cp = [t \in Tasks |-> "none"]
    /\ outcome = [t \in Tasks |-> "none"]
    /\ sent = <<>>
    /\ clientClosed = FALSE
    /\ backendClosed = FALSE
    /\ ncIn = <<>>
    /\ bufr = <<>>
    /\ dIn = <<>>
    /\ backendRecv = <<>>
    /\ dOut = <<>>
    /\ clientRecv = <<>>
    /\ detected = <<>>
    /\ round = 1
    /\ firstOut = u
    /\ rounds = <<>>

Init ==
    \E tgt \in SessionTargets, u \in SessionURLs :
        InitSession(tgt, u, SessionHeader)

----------------------------------------------------------------------------
(* ServeHTTP, wsutil.go:68-121 *)

(* Begin ignoring p.ErrorLog *)
BeginStdLogger ==
    /\ pc = "Idle"
    /\ pc' = "Rewriting"
    /\ logFunc' = "std"
    /\ outreq' = r
    /\ UNCHANGED << target, ErrorLog, wIsHijacker, heap, r, inURL, terminal >>
    /\ UNCHANGED << connVars, chanVars, dataVars, callVars >>
    /\ UNCHANGED callerVars

(* lines 69-75: choose the logger, shallow-copy the request *)
Begin ==
    /\ pc = "Idle"
    /\ pc' = "Rewriting"
    /\ logFunc' = IF ErrorLog THEN "ErrorLog" ELSE "std"
    /\ outreq' = r
    /\ UNCHANGED << target, ErrorLog, wIsHijacker, heap, r, inURL, terminal >>
    /\ UNCHANGED << connVars, chanVars, dataVars, callVars >>
    /\ UNCHANGED callerVars

(* line 76: p.Director(outreq) writes through outreq.URL *)
Rewrite ==
    /\ pc = "Rewriting"
    /\ pc' = "Dialing"
    /\ heap' = [heap EXCEPT ![outreq.URL] = director(target, heap[outreq.URL])]
    /\ UNCHANGED << target, ErrorLog, wIsHijacker, r, outreq, inURL, logFunc,
                    terminal >>
    /\ UNCHANGED << connVars, chanVars, dataVars, callVars >>
    /\ UNCHANGED callerVars

theDial == [network |-> "tcp", addr |-> dialHost(heap[outreq.URL].Host)]

(* lines 77-86, err == nil *)
DialOk ==
    /\ pc = "Dialing"
    /\ pc' = "Hijacking"
    /\ dialCalls' = Append(dialCalls, theDial)
    /\ d' = "open"
    /\ UNCHANGED << nc, dCloses, ncCloses, recvAtClose, resp, logs,
                    hijackCalls, writeCalls, terminal >>
    /\ UNCHANGED << urlVars, chanVars, dataVars >>
    /\ UNCHANGED callerVars

(* DialFail without its return statement *)
DialFailNoReturn ==
    /\ pc = "Dialing"
    /\ pc' = "Hijacking"
    /\ terminal' = "DialFailed"
    /\ dialCalls' = Append(dialCalls, theDial)
    /\ resp' = Append(resp, 500)
    /\ logs' = Append(logs, [logger |-> logFunc, msg |-> "dial", err |-> "dialErr"])
    /\ UNCHANGED << hijackCalls, writeCalls >>
    /\ UNCHANGED << urlVars, connVars, chanVars, dataVars >>
    /\ UNCHANGED callerVars

(* lines 77-91, err != nil *)
DialFail ==
    /\ pc = "Dialing"
    /\ pc' = "Returned"
    /\ terminal' = "DialFailed"
    /\ dialCalls' = Append(dialCalls, theDial)
    /\ resp' = Append(resp, 500)
    /\ logs' = Append(logs, [logger |-> logFunc, msg |-> "dial", err |-> "dialErr"])
    /\ UNCHANGED << hijackCalls, writeCalls >>
    /\ UNCHANGED << urlVars, connVars, chanVars, dataVars >>
    /\ UNCHANGED callerVars

(* lines 93-97, !ok *)
HijackUnsupported ==
    /\ pc = "Hijacking"
    /\ ~wIsHijacker
    /\ pc' = "Returned"
    /\ terminal' = "HijackUnsupported"
    /\ resp' = Append(resp, 500)
    /\ UNCHANGED << dialCalls, logs, hijackCalls, writeCalls >>
    /\ UNCHANGED << urlVars, connVars, chanVars, dataVars >>
    /\ UNCHANGED callerVars

(* HijackOk going on to the copy goroutines without writing the request *)
HijackOkSkipForward ==
    /\ pc = "Hijacking"
    /\ wIsHijacker
    /\ pc' = "Spawn1"
    /\ hijackCalls' = hijackCalls + 1
    /\ nc' = "open"
    /\ UNCHANGED << d, dCloses, ncCloses, recvAtClose, dialCalls, resp, logs,
                    writeCalls, terminal >>
    /\ UNCHANGED << urlVars, chanVars, dataVars >>
    /\ UNCHANGED callerVars

(* lines 93-106, err == nil: the connection is taken from the server and   *)
(* the bufio.ReadWriter returned with it is dropped                        *)
HijackOk ==
    /\ pc = "Hijacking"
    /\ wIsHijacker
    /\ pc' = "Forwarding"
    /\ hijackCalls' = hijackCalls + 1
    /\ nc' = "open"
    /\ UNCHANGED << d, dCloses, ncCloses, recvAtClose, dialCalls, resp, logs,
                    writeCalls, terminal >>
    /\ UNCHANGED << urlVars, chanVars, dataVars >>
    /\ UNCHANGED callerVars

(* HijackFail answering with an error response as the other aborts do *)
HijackFailWith500 ==
    /\ pc = "Hijacking"
    /\ wIsHijacker
    /\ pc' = "Returned"
    /\ terminal' = "HijackFailed"
    /\ hijackCalls' = hijackCalls + 1
    /\ resp' = Append(resp, 500)
    /\ logs' = Append(logs, [logger |-> logFunc, msg |-> "hijack", err |-> "hijackErr"])
    /\ UNCHANGED << dialCalls, writeCalls >>
    /\ UNCHANGED << urlVars, connVars, chanVars, dataVars >>
    /\ UNCHANGED callerVars

(* lines 100-104, err != nil *)
HijackFail ==
    /\ pc = "Hijacking"
    /\ wIsHijacker
    /\ pc' = "Returned"
    /\ terminal' = "HijackFailed"
    /\ hijackCalls' = hijackCalls + 1
    /\ logs' = Append(logs, [logger |-> logFunc, msg |-> "hijack", err |-> "hijackErr"])
    /\ UNCHANGED << dialCalls, resp, writeCalls >>
    /\ UNCHANGED << urlVars, connVars, chanVars, dataVars >>
    /\ UNCHANGED callerVars

(* lines 108-113, err == nil: the request is on its way to the backend *)
ForwardOk ==
    /\ pc = "Forwarding"
    /\ pc' = "Spawn1"
    /\ writeCalls' = writeCalls + 1
    /\ dIn' = Append(dIn, ReqBytes)
    /\ UNCHANGED << sent, clientClosed, backendClosed, ncIn, bufr, backendRecv,
                    dOut, clientRecv >>
    /\ UNCHANGED << dialCalls, resp, logs, hijackCalls, terminal >>
    /\ UNCHANGED << urlVars, connVars, chanVars >>
    /\ UNCHANGED callerVars

(* ForwardFail writing the request again instead of returning *)
ForwardFailRetry ==
    /\ pc = "Forwarding"
    /\ pc' = "Forwarding"
    /\ writeCalls' = writeCalls + 1
    /\ logs' = Append(logs, [logger |-> logFunc, msg |-> "write", err |-> "writeErr"])
    /\ UNCHANGED << dialCalls, resp, hijackCalls, terminal >>
    /\ UNCHANGED << urlVars, connVars, chanVars, dataVars >>
    /\ UNCHANGED callerVars

(* lines 108-112, err != nil; the deferred closes run next *)
ForwardFail ==
    /\ pc = "Forwarding"
    /\ pc' = "CloseBackend"
    /\ terminal' = "ForwardFailed"
    /\ writeCalls' = writeCalls + 1
    /\ logs' = Append(logs, [logger |-> logFunc, msg |-> "write", err |-> "writeErr"])
    /\ UNCHANGED << dialCalls, resp, hijackCalls >>
    /\ UNCHANGED << urlVars, connVars, chanVars, dataVars >>
    /\ UNCHANGED callerVars

(* line 118: go cp(d, nc) *)
Spawn1 ==
    /\ pc = "Spawn1"
    /\ pc' = "Spawn2"
    /\ cp' = [cp EXCEPT !["c2b"] = "copying"]
    /\ UNCHANGED << errc, recvCount, outcome, terminal >>
    /\ UNCHANGED << urlVars, connVars, dataVars, callVars >>
    /\ UNCHANGED callerVars

(* the second go statement starting cp(d, nc) again *)
Spawn2SameDirection ==
    /\ pc = "Spawn2"
    /\ pc' = "Bridging"
    /\ cp' = [cp EXCEPT !["c2b"] = "copying"]
    /\ UNCHANGED << errc, recvCount, outcome, terminal >>
    /\ UNCHANGED << urlVars, connVars, dataVars, callVars >>
    /\ UNCHANGED callerVars

(* line 119: go cp(nc, d) *)
Spawn2 ==
    /\ pc = "Spawn2"
    /\ pc' = "Bridging"
    /\ cp' = [cp EXCEPT !["b2c"] = "copying"]
    /\ UNCHANGED << errc, recvCount, outcome, terminal >>
    /\ UNCHANGED << urlVars, connVars, dataVars, callVars >>
    /\ UNCHANGED callerVars

(* a receive that logs the outcome when it is an error *)
RecvLogErr ==
    /\ pc = "Bridging"
    /\ Len(errc) > 0
    /\ pc' = "CloseBackend"
    /\ errc' = Tail(errc)
    /\ recvCount' = recvCount + 1
    /\ logs' = IF Head(errc) = "err"
               THEN Append(logs, [logger |-> logFunc, msg |-> "relay", err |-> "err"])
               ELSE logs
    /\ UNCHANGED << dialCalls, resp, hijackCalls, writeCalls >>
    /\ UNCHANGED << cp, outcome, terminal >>
    /\ UNCHANGED << urlVars, connVars, dataVars >>
    /\ UNCHANGED callerVars

(* a receive that waits for both goroutines *)
RecvBoth ==
    /\ pc = "Bridging"
    /\ Len(errc) = 2
    /\ pc' = "CloseBackend"
    /\ errc' = <<>>
    /\ recvCount' = recvCount + 2
    /\ UNCHANGED << cp, outcome, terminal >>
    /\ UNCHANGED << urlVars, connVars, dataVars, callVars >>
    /\ UNCHANGED callerVars

(* line 120: <-errc *)
Recv ==
    /\ pc = "Bridging"
    /\ Len(errc) > 0
    /\ pc' = "CloseBackend"
    /\ errc' = Tail(errc)
    /\ recvCount' = recvCount + 1
    /\ UNCHANGED << cp, outcome, terminal >>
    /\ UNCHANGED << urlVars, connVars, dataVars, callVars >>
    /\ UNCHANGED callerVars

(* line 106, deferred: d.Close() runs first *)
CloseBackend ==
    /\ pc = "CloseBackend"
    /\ pc' = "CloseClient"
    /\ d' = "closed"
    /\ dCloses' = dCloses + 1
    /\ recvAtClose' = Append(recvAtClose, recvCount)
    /\ UNCHANGED << nc, ncCloses, terminal >>
    /\ UNCHANGED << urlVars, chanVars, dataVars, callVars >>
    /\ UNCHANGED callerVars

(* a return without the deferred nc.Close() *)
ReturnNoClientClose ==
    /\ pc = "CloseClient"
    /\ pc' = "Returned"
    /\ terminal' = IF terminal = "none" THEN "Closed" ELSE terminal
    /\ UNCHANGED << connVars >>
    /\ UNCHANGED << urlVars, chanVars, dataVars, callVars >>
    /\ UNCHANGED callerVars

(* line 105, deferred: nc.Close() runs last, then ServeHTTP returns *)
CloseClient ==
    /\ pc = "CloseClient"
    /\ pc' = "Returned"
    /\ nc' = "closed"
    /\ ncCloses' = ncCloses + 1
    /\ recvAtClose' = Append(recvAtClose, recvCount)
    /\ terminal' = IF terminal = "none" THEN "Closed" ELSE terminal
    /\ UNCHANGED << d, dCloses >>
    /\ UNCHANGED << urlVars, chanVars, dataVars, callVars >>
    /\ UNCHANGED callerVars

----------------------------------------------------------------------------
(* cp, wsutil.go:114-117 *)

(* io.Copy moves the next byte from src to dst *)
CopyByte(t) ==
    /\ cp[t] = "copying"
    /\ d = "open" /\ nc = "open"
    /\ IF t = "c2b"
       THEN /\ ncIn # <<>>
            /\ ncIn' = Tail(ncIn)
            /\ dIn' = Append(dIn, Head(ncIn))
            /\ UNCHANGED << dOut, clientRecv >>
       ELSE /\ dOut # <<>>
            /\ dOut' = Tail(dOut)
            /\ clientRecv' = Append(clientRecv, Head(dOut))
            /\ UNCHANGED << ncIn, dIn >>
    /\ UNCHANGED << sent, clientClosed, backendClosed, bufr, backendRecv >>
    /\ UNCHANGED << pc, terminal >>
    /\ UNCHANGED << urlVars, connVars, chanVars, callVars >>
    /\ UNCHANGED callerVars

(* io.Copy returns nil: src reported end of stream *)
CopyEOF(t) ==
    /\ cp[t] = "copying"
    /\ d = "open" /\ nc = "open"
    /\ IF t = "c2b" THEN clientClosed /\ ncIn = <<>>
                    ELSE backendClosed /\ dOut = <<>>
    /\ cp' = [cp EXCEPT ![t] = "sending"]
    /\ outcome' = [outcome EXCEPT ![t] = "nil"]
    /\ UNCHANGED << errc, recvCount, pc, terminal >>
    /\ UNCHANGED << urlVars, connVars, dataVars, callVars >>
    /\ UNCHANGED callerVars

(* io.Copy returns an error: a read or write failed, as every read and     *)
(* write does once either connection has been closed                       *)
CopyErr(t) ==
    /\ cp[t] = "copying"
    /\ cp' = [cp EXCEPT ![t] = "sending"]
    /\ outcome' = [outcome EXCEPT ![t] = "err"]
    /\ UNCHANGED << errc, recvCount, pc, terminal >>
    /\ UNCHANGED << urlVars, connVars, dataVars, callVars >>
    /\ UNCHANGED callerVars

(* io.Copy returns an error because of the teardown: the read from a      *)
(* closed src fails, and so does the write of pending bytes to a closed    *)
(* dst                                                                     *)
CopyClosed(t) ==
    /\ cp[t] = "copying"
    /\ IF t = "c2b" THEN nc = "closed" \/ (d = "closed" /\ ncIn # <<>>)
                    ELSE d = "closed" \/ (nc = "closed" /\ dOut # <<>>)
    /\ cp' = [cp EXCEPT ![t] = "sending"]
    /\ outcome' = [outcome EXCEPT ![t] = "err"]
    /\ UNCHANGED << errc, recvCount, pc, terminal >>
    /\ UNCHANGED << urlVars, connVars, dataVars, callVars >>
    /\ UNCHANGED callerVars

(* the send on a channel with room for one outcome only *)
CopySendCapOne(t) ==
    /\ cp[t] = "sending"
    /\ Len(errc) < 1
    /\ errc' = Append(errc, outcome[t])
    /\ cp' = [cp EXCEPT ![t] = "exited"]
    /\ UNCHANGED << recvCount, outcome, pc, terminal >>
    /\ UNCHANGED << urlVars, connVars, dataVars, callVars >>
    /\ UNCHANGED callerVars

(* line 116: errc <- err, blocks while the channel is full *)
CopySend(t) ==
    /\ cp[t] = "sending"
    /\ Len(errc) < ErrcCap
    /\ errc' = Append(errc, outcome[t])
    /\ cp' = [cp EXCEPT ![t] = "exited"]
    /\ UNCHANGED << recvCount, outcome, pc, terminal >>
    /\ UNCHANGED << urlVars, connVars, dataVars, callVars >>
    /\ UNCHANGED callerVars

----------------------------------------------------------------------------
(* the peers *)

(* the client sends its next payload byte; the k-th byte is the value k *)
ClientSend ==
    /\ ~clientClosed
    /\ nc # "closed"
    /\ Len(sent) < MaxPayload
    /\ sent' = Append(sent, Len(sent) + 1)
    /\ ncIn' = Append(ncIn, Len(sent) + 1)
    /\ UNCHANGED << clientClosed, backendClosed, bufr, dIn, backendRecv, dOut,
                    clientRecv >>
    /\ UNCHANGED << pc, terminal >>
    /\ UNCHANGED << urlVars, connVars, chanVars, callVars >>
    /\ UNCHANGED callerVars

(* the client closes its side *)
ClientClose ==
    /\ ~clientClosed
    /\ clientClosed' = TRUE
    /\ UNCHANGED << sent, backendClosed, ncIn, bufr, dIn, backendRecv, dOut,
                    clientRecv >>
    /\ UNCHANGED << pc, terminal >>
    /\ UNCHANGED << urlVars, connVars, chanVars, callVars >>
    /\ UNCHANGED callerVars

(* while the server still owns the connection, its bufio.Reader reads      *)
(* ahead of the request; Hijack hands that buffer over (line 100)          *)
ServerReadAhead ==
    /\ nc = "nil"
    /\ pc \in {"Idle", "Rewriting", "Dialing", "Hijacking"}
    /\ ncIn # <<>>
    /\ ncIn' = Tail(ncIn)
    /\ bufr' = Append(bufr, Head(ncIn))
    /\ UNCHANGED << sent, clientClosed, backendClosed, dIn, backendRecv, dOut,
                    clientRecv >>
    /\ UNCHANGED << pc, terminal >>
    /\ UNCHANGED << urlVars, connVars, chanVars, callVars >>
    /\ UNCHANGED callerVars

(* the backend echoes the next byte it receives *)
BackendEcho ==
    /\ ~backendClosed
    /\ d = "open"
    /\ dIn # <<>>
    /\ dIn' = Tail(dIn)
    /\ backendRecv' = Append(backendRecv, Head(dIn))
    /\ dOut' = Append(dOut, Head(dIn))
    /\ UNCHANGED << sent, clientClosed, backendClosed, ncIn, bufr, clientRecv >>
    /\ UNCHANGED << pc, terminal >>
    /\ UNCHANGED << urlVars, connVars, chanVars, callVars >>
    /\ UNCHANGED callerVars

(* the backend closes its side *)
BackendClose ==
    /\ ~backendClosed
    /\ d # "nil"
    /\ backendClosed' = TRUE
    /\ UNCHANGED << sent, clientClosed, ncIn, bufr, dIn, backendRecv, dOut,
                    clientRecv >>
    /\ UNCHANGED << pc, terminal >>
    /\ UNCHANGED << urlVars, connVars, chanVars, callVars >>
    /\ UNCHANGED callerVars

----------------------------------------------------------------------------
(* the caller *)

(* the caller asks IsWebSocketRequest(r) before handing r to ServeHTTP *)
Detect ==
    /\ pc = "Idle"
    /\ detected = <<>>
    /\ detected' = << IsWebSocketRequest(r) >>
    /\ UNCHANGED << round, firstOut, rounds, pc, terminal >>
    /\ UNCHANGED << urlVars, connVars, chanVars, dataVars, callVars >>

(* ServeHTTP has returned with the connection still owned by the server,  *)
(* and the caller hands the same request r to ServeHTTP once more          *)
ServeAgain ==
    /\ pc = "Returned"
    /\ terminal \in {"DialFailed", "HijackUnsupported"}
    /\ round < MaxRounds
    /\ round' = round + 1
    /\ rounds' = Append(rounds, terminal)
    /\ firstOut' = IF round = 1 THEN heap[outreq.URL] ELSE firstOut
    /\ inURL' = heap[r.URL]
    /\ pc' = "Idle"
    /\ terminal' = "none"
    /\ logFunc' = "unset"
    /\ outreq' = [URL |-> 0, Header |-> r.Header]
    /\ d' = "nil"
    /\ dialCalls' = <<>>
    /\ resp' = <<>>
    /\ logs' = <<>>
    /\ UNCHANGED << target, ErrorLog, wIsHijacker, heap, r, detected >>
    /\ UNCHANGED << nc, dCloses, ncCloses, recvAtClose, hijackCalls, writeCalls >>
    /\ UNCHANGED << chanVars, dataVars >>

----------------------------------------------------------------------------

Next ==
    \/ Begin
    \/ Rewrite
    \/ DialOk
    \/ DialFail
    \/ HijackUnsupported
    \/ HijackOk
    \/ HijackFail
    \/ ForwardOk
    \/ ForwardFail
    \/ Spawn1
    \/ Spawn2
    \/ Recv
    \/ CloseBackend
    \/ CloseClient
    \/ \E t \in Tasks : CopyByte(t)
    \/ \E t \in Tasks : CopyEOF(t)
    \/ \E t \in Tasks : CopyErr(t)
    \/ \E t \in Tasks : CopyClosed(t)
    \/ \E t \in Tasks : CopySend(t)
    \/ ClientSend
    \/ ClientClose
    \/ ServerReadAhead
    \/ BackendEcho
    \/ BackendClose
    \/ ServeAgain

Spec == Init /\ [][Next]_vars

(* the goroutines are scheduled: a copy that can fail on a closed          *)
(* connection does, and a send that can proceed does                       *)
Fairness ==
    \A t \in Tasks : WF_vars(CopyClosed(t)) /\ WF_vars(CopySend(t))

SpecFair == Init /\ [][Next]_vars /\ Fairness

----------------------------------------------------------------------------
(* the rewriter on its own: ServeHTTP up to the Director call, over all    *)
(* bounded targets and request URLs                                        *)

RewriteTargets ==
    { [Scheme |-> s, Host |-> h, Path |-> p, RawQuery |-> q] :
        s \in {"ws"}, h \in Hosts, p \in Paths, q \in Queries }

RewriteURLs ==
    { [Scheme |-> "", Host |-> <<>>, Path |-> p, RawQuery |-> q] :
        p \in Paths, q \in Queries }

InitRewrite ==
    /\ \E tgt \in RewriteTargets, u \in RewriteURLs :
          InitSession(tgt, u, SessionHeader)
    /\ ErrorLog = FALSE
    /\ wIsHijacker = TRUE

NextRewrite ==
    \/ Begin
    \/ Rewrite

SpecRewrite == InitRewrite /\ [][NextRewrite]_vars

----------------------------------------------------------------------------
(* the detector on its own, over all bounded header maps *)

InitDetect ==
    /\ \E tgt \in SessionTargets, u \in SessionURLs, h \in Headers :
          InitSession(tgt, u, h)
    /\ target.Scheme = "ws"
    /\ target.Host = <<"h">>
    /\ ErrorLog = FALSE
    /\ wIsHijacker = TRUE

NextDetect ==
    \/ Detect

SpecDetect == InitDetect /\ [][NextDetect]_vars

----------------------------------------------------------------------------
(* Properties *)

IsPrefix(s, t) == Len(s) <= Len(t) /\ SubSeq(t, 1, Len(s)) = s

EndsWithSlash(s)   == s # <<>> /\ s[Len(s)] = "/"
StartsWithSlash(s) == s # <<>> /\ s[1] = "/"
NoDoubleSlash(s)   == \A i \in 1..(Len(s) - 1) : ~(s[i] = "/" /\ s[i + 1] = "/")

Failures == {"DialFailed", "HijackUnsupported", "HijackFailed", "ForwardFailed"}
configuredLogger == IF ErrorLog THEN "ErrorLog" ELSE "std"
Rewritten == pc \notin {"Idle", "Rewriting"}
outURL == heap[outreq.URL]

(* C1: whenever ServeHTTP has returned from a run in which the dial        *)
(* succeeded, the backend connection has been closed, whichever terminal   *)
(* state was reached.                                                      *)
C1_BackendReleased ==
    (pc = "Returned" /\ d # "nil") => d = "closed"

(* C2: once the hijack has succeeded, the client connection and the        *)
(* backend connection are each closed exactly once on every exit path, by  *)
(* ServeHTTP, and in the bridged case only after the first outcome has     *)
(* been received from the bridge.                                          *)
C2_ClosedExactlyOnce ==
    /\ dCloses <= 1 /\ ncCloses <= 1
    /\ (d = "closed") <=> (dCloses = 1)
    /\ (nc = "closed") <=> (ncCloses = 1)
    /\ (pc = "Returned" /\ hijackCalls = 1 /\ terminal # "HijackFailed")
          => (dCloses = 1 /\ ncCloses = 1)
    /\ (terminal # "ForwardFailed")
          => \A i \in 1..Len(recvAtClose) : recvAtClose[i] >= 1

C2_Witness ==
    /\ pc = "Returned" /\ terminal = "Closed"
    /\ dCloses = 1 /\ ncCloses = 1
    /\ recvAtClose = <<1, 1>>

(* C3: when the dial fails the client gets a 500, the dial error is        *)
(* logged, the inbound connection is neither hijacked nor closed and       *)
(* nothing is written to a backend.                                        *)
C3_DialFailure ==
    (terminal = "DialFailed") =>
        /\ pc = "Returned"
        /\ resp = <<500>>
        /\ logs = << [logger |-> configuredLogger, msg |-> "dial", err |-> "dialErr"] >>
        /\ hijackCalls = 0 /\ nc = "nil" /\ ncCloses = 0
        /\ writeCalls = 0 /\ d = "nil" /\ dIn = <<>> /\ backendRecv = <<>>

C3_Witness ==
    /\ terminal = "DialFailed"
    /\ resp = <<500>>
    /\ Len(dialCalls) = 1

(* C4: ServeHTTP goes on to teardown after exactly one outcome has been    *)
(* received from the two copy tasks, and a single outcome in the channel   *)
(* is enough for it to go on: it never waits for the second.               *)
C4_FirstOutcomeEndsBridge ==
    /\ recvCount <= 1
    /\ (pc \in {"Idle", "Rewriting", "Dialing", "Hijacking", "Forwarding",
                "Spawn1", "Spawn2", "Bridging"}) => recvCount = 0
    /\ (terminal = "Closed") => recvCount = 1
    /\ (pc = "Bridging" /\ Len(errc) >= 1) => ENABLED Recv

C4_Witness ==
    /\ terminal = "Closed"
    /\ recvCount = 1
    /\ \E t \in Tasks : cp[t] = "copying"

(* C5: with an echoing backend, what the backend has received and what     *)
(* the client has received back are always the rewritten request followed  *)
(* by the payload bytes the client sent, in order and with none missing,   *)
(* and both connections are closed once the session is over.               *)
C5_EndToEndRelay ==
    /\ IsPrefix(backendRecv, <<ReqBytes>> \o sent)
    /\ IsPrefix(clientRecv, <<ReqBytes>> \o sent)
    /\ (terminal = "Closed") => (d = "closed" /\ nc = "closed")

(* C6: a 500 is written to the client exactly in DialFailed and            *)
(* HijackUnsupported, and nothing is written in any other state.           *)
C6_Status500 ==
    /\ (terminal \in {"DialFailed", "HijackUnsupported"}) => resp = <<500>>
    /\ (terminal \notin {"DialFailed", "HijackUnsupported"}) => resp = <<>>

C6_Witness ==
    /\ terminal = "HijackFailed"
    /\ resp = <<>>
    /\ hijackCalls = 1

triggeringError ==
    CASE terminal = "DialFailed"        -> "dialErr"
      [] terminal = "HijackUnsupported" -> "notHijacker"
      [] terminal = "HijackFailed"      -> "hijackErr"
      [] terminal = "ForwardFailed"     -> "writeErr"
      [] OTHER                          -> "none"

OneLogLine ==
    /\ Len(logs) = 1
    /\ logs[1].logger = configuredLogger
    /\ logs[1].err = triggeringError

(* C7 as stated: every failure path, hijack unsupported included, emits    *)
(* exactly one log line carrying the triggering error, to the configured   *)
(* logger or else the default logger.                                      *)
C7_EveryFailureLogged ==
    (terminal \in Failures) => OneLogLine

(* C7, amended: dial failure, hijack failure and request-write failure     *)
(* each emit exactly one log line carrying the triggering error, to the    *)
(* configured logger or else the default logger; hijack unsupported emits  *)
(* none.                                                                   *)
C7_FailureLogged ==
    /\ (terminal \in Failures \ {"HijackUnsupported"}) => OneLogLine
    /\ (terminal = "HijackUnsupported") => logs = <<>>

C7_Witness ==
    /\ terminal = "ForwardFailed"
    /\ ErrorLog
    /\ Len(logs) = 1

(* C8: after the Director has been applied to the copy, the target URL of  *)
(* the caller's original request is what it was on entry.                  *)
C8_OriginalUnchanged ==
    Rewritten => heap[r.URL] = inURL

(* C9: the joined path is a followed by b without its leading slash when   *)
(* a ends and b starts with a slash, a + "/" + b when neither does, and    *)
(* a + b otherwise; "/a/" and "/a" joined with "/b" give "/a/b"; scheme    *)
(* and host are the base's.                                                *)
C9_PathJoinRule ==
    Rewritten =>
        LET a == target.Path
            b == inURL.Path
        IN  /\ outURL.Scheme = target.Scheme
            /\ outURL.Host = target.Host
            /\ (EndsWithSlash(a) /\ StartsWithSlash(b))
                  => outURL.Path = a \o Tail(b)
            /\ (~EndsWithSlash(a) /\ ~StartsWithSlash(b))
                  => outURL.Path = a \o <<"/">> \o b
            /\ (EndsWithSlash(a) # StartsWithSlash(b))
                  => outURL.Path = a \o b
            /\ (a \in {<<"/", "a", "/">>, <<"/", "a">>} /\ b = <<"/", "b">>)
                  => outURL.Path = <<"/", "a", "/", "b">>

C9_Witness ==
    /\ Rewritten
    /\ target.Path = <<"/", "a", "/">>
    /\ inURL.Path = <<"/", "b">>
    /\ outURL.Path = <<"/", "a", "/", "b">>

trimTrailingSlash(s) == IF EndsWithSlash(s) THEN SubSeq(s, 1, Len(s) - 1) ELSE s
trimLeadingSlash(s)  == IF StartsWithSlash(s) THEN Tail(s) ELSE s

(* C10 as stated: for every base path and inbound path the joined path     *)
(* contains no double slash.                                               *)
C10_NeverDoubleSlash ==
    Rewritten => NoDoubleSlash(outURL.Path)

(* C10, amended: for base and inbound paths that contain no double slash   *)
(* themselves the joined path contains none; and for all paths the joined  *)
(* path is the base without one trailing slash, one slash, and the inbound *)
(* path without one leading slash, so that no other character is lost.     *)
C10_OneSeparator ==
    Rewritten =>
        LET a == target.Path
            b == inURL.Path
        IN  /\ (NoDoubleSlash(a) /\ NoDoubleSlash(b)) => NoDoubleSlash(outURL.Path)
            /\ outURL.Path = trimTrailingSlash(a) \o <<"/">> \o trimLeadingSlash(b)

C10_Witness ==
    /\ Rewritten
    /\ target.Path = <<"/", "a">>
    /\ inURL.Path = <<"b">>
    /\ outURL.Path = <<"/", "a", "/", "b">>

(* C11: the outbound query is empty when base and inbound query are both   *)
(* empty, the non-empty one when exactly one is non-empty, and             *)
(* base + "&" + inbound when both are non-empty.                           *)
C11_QueryMerge ==
    Rewritten =>
        LET q1 == target.RawQuery
            q2 == inURL.RawQuery
            q  == outURL.RawQuery
        IN  /\ (Len(q1) = 0 /\ Len(q2) = 0) => Len(q) = 0
            /\ (Len(q1) > 0 /\ Len(q2) = 0) => q = q1
            /\ (Len(q1) = 0 /\ Len(q2) > 0) => q = q2
            /\ (Len(q1) > 0 /\ Len(q2) > 0) =>
                  /\ Len(q) = Len(q1) + Len(q2) + 1
                  /\ \A i \in 1..Len(q1) : q[i] = q1[i]
                  /\ q[Len(q1) + 1] = "&"
                  /\ \A i \in 1..Len(q2) : q[Len(q1) + 1 + i] = q2[i]

C11_Witness ==
    /\ Rewritten
    /\ target.RawQuery = <<"x">>
    /\ inURL.RawQuery = <<"y">>
    /\ outURL.RawQuery = <<"x", "&", "y">>

foldEq(c1, c2) ==
    \/ c1 = c2
    \/ \E k \in 1..Len(upperLetters) :
          {c1, c2} = {upperLetters[k], lowerLetters[k]}

EqualFold(s1, s2) ==
    /\ Len(s1) = Len(s2)
    /\ \A i \in 1..Len(s1) : foldEq(s1[i], s2[i])

(* C12: IsWebSocketRequest answers true exactly when the Connection value  *)
(* equals "upgrade" and the Upgrade value equals "websocket", both up to   *)
(* letter case; a missing header or a multi-token value gives false.       *)
C12_UpgradeDetection ==
    (detected # <<>>) =>
        LET conn == r.Header["Connection"]
            upg  == r.Header["Upgrade"]
        IN  /\ detected[1] <=>
                  /\ conn # <<>> /\ EqualFold(conn[1], strUpgrade)
                  /\ upg # <<>> /\ EqualFold(upg[1], strWebsocket)
            /\ (conn = <<>> \/ upg = <<>>) => ~detected[1]
            /\ (conn # <<>> /\ Len(conn[1]) > Len(strUpgrade)) => ~detected[1]

C12_Witness ==
    /\ detected = <<TRUE>>
    /\ r.Header["Connection"][1] = << "U", "p", "g", "r", "a", "d", "e" >>
    /\ r.Header["Upgrade"][1] = << "W", "e", "b", "S", "o", "c", "k", "e", "t" >>

(* C13: the dial function is called on network "tcp" with the rewritten    *)
(* host, followed by ":80" when the host holds no ":" and as it is          *)
(* otherwise, whatever the scheme.                                         *)
C13_DefaultPort ==
    (Len(dialCalls) >= 1) =>
        LET host == outURL.Host
            call == dialCalls[1]
        IN  /\ host = target.Host
            /\ call.network = "tcp"
            /\ (\A i \in 1..Len(host) : host[i] # ":")
                  => call.addr = host \o <<":", "8", "0">>
            /\ (\E i \in 1..Len(host) : host[i] = ":") => call.addr = host
            /\ (host = <<"h">>) => call.addr = <<"h", ":", "8", "0">>
            /\ (host = <<"h", ":", "9">>) => call.addr = <<"h", ":", "9">>

C13_Witness ==
    /\ Len(dialCalls) = 1
    /\ target.Scheme = "wss"
    /\ dialCalls[1] = [network |-> "tcp", addr |-> <<"h", ":", "8", "0">>]

(* C14: handling the same inbound request a second time through the proxy  *)
(* gives the same outbound target as the first time.                       *)
C14_SameRewriteTwice ==
    (round >= 2 /\ Rewritten) => outURL = firstOut

sessionState ==
    CASE pc \in {"Spawn1", "Spawn2", "Bridging"} -> "Bridging"
      [] pc \in {"CloseBackend", "CloseClient"} ->
            IF terminal = "ForwardFailed" THEN "ForwardFailed" ELSE "Bridging"
      [] pc = "Returned" -> terminal
      [] OTHER -> pc

Edges ==
    { <<"Idle", "Rewriting">>, <<"Rewriting", "Dialing">>,
      <<"Dialing", "DialFailed">>, <<"Dialing", "Hijacking">>,
      <<"Hijacking", "HijackUnsupported">>, <<"Hijacking", "HijackFailed">>,
      <<"Hijacking", "Forwarding">>, <<"Forwarding", "ForwardFailed">>,
      <<"Forwarding", "Bridging">>, <<"Bridging", "Closed">> }

(* C15: within a session every step moves along the state machine Idle,    *)
(* Rewriting, Dialing, Hijacking, Forwarding, Bridging, Closed or into one *)
(* of the terminal failure states; Hijack is called only with the backend  *)
(* dialed, the request is written only with the client connection          *)
(* hijacked, and a copy task starts only after that write succeeded.       *)
C15_StateMachine ==
    [][ /\ \/ round' # round
           \/ sessionState' = sessionState
           \/ <<sessionState, sessionState'>> \in Edges
        /\ (hijackCalls' # hijackCalls) => (d = "open" /\ Len(dialCalls) = 1)
        /\ (writeCalls' # writeCalls) => (nc = "open" /\ hijackCalls = 1)
        /\ (cp' # cp /\ \E t \in Tasks : cp[t] = "none")
              => (writeCalls = 1 /\ terminal = "none" /\ sessionState = "Bridging")
      ]_vars

C15_Witness ==
    /\ sessionState = "Closed"
    /\ Len(dialCalls) = 1 /\ hijackCalls = 1 /\ writeCalls = 1
    /\ \A t \in Tasks : cp[t] # "none"

(* C16: in every session the dial function is called at most once and the  *)
(* request is written to the backend at most once.                         *)
C16_NoRetry ==
    /\ Len(dialCalls) <= 1
    /\ writeCalls <= 1
    /\ (terminal \in Failures) =>
          /\ Len(dialCalls) = 1
          /\ writeCalls = (IF terminal = "ForwardFailed" THEN 1 ELSE 0)

C16_Witness ==
    /\ pc = "Returned"
    /\ terminal = "ForwardFailed"
    /\ Len(dialCalls) = 1
    /\ writeCalls = 1

running == { t \in Tasks : cp[t] \in {"copying", "sending"} }

(* C17: a bridged session has spawned both copy tasks, one for each         *)
(* direction, a session ending in a failure state has spawned none, and    *)
(* at most three units of work run at a time.                              *)
C17_TwoCopyTasks ==
    /\ (terminal \in Failures) => \A t \in Tasks : cp[t] = "none"
    /\ (pc \in {"Idle", "Rewriting", "Dialing", "Hijacking", "Forwarding", "Spawn1"})
          => \A t \in Tasks : cp[t] = "none"
    /\ (pc = "Spawn2") => (cp["c2b"] # "none" /\ cp["b2c"] = "none")
    /\ (pc = "Bridging" \/ terminal = "Closed") => \A t \in Tasks : cp[t] # "none"
    /\ Cardinality(running) + (IF pc = "Returned" THEN 0 ELSE 1) <= 3

C17_Witness ==
    /\ pc = "Bridging"
    /\ \A t \in Tasks : cp[t] = "copying"

(* C18: the channel never holds more than two outcomes, every copy task    *)
(* that has finished has written exactly one, ServeHTTP reads at most one  *)
(* and exactly one when bridged, and a copy task that is about to send can *)
(* always do so, also after ServeHTTP has returned.                        *)
C18_CompletionChannel ==
    /\ Len(errc) <= 2
    /\ recvCount <= 1
    /\ Len(errc) + recvCount = Cardinality({ t \in Tasks : cp[t] = "exited" })
    /\ (terminal = "Closed") => recvCount = 1
    /\ \A t \in Tasks : (cp[t] = "sending") => ENABLED CopySend(t)

C18_Witness ==
    /\ pc = "Returned"
    /\ \A t \in Tasks : cp[t] = "exited"
    /\ Len(errc) = 1
    /\ recvCount = 1

(* C19: once ServeHTTP has closed both sockets after the first completion, *)
(* every copy task eventually reports its outcome and terminates.          *)
C19_LoserStops ==
    (terminal = "Closed") ~> (\A t \in Tasks : cp[t] = "exited")

C19_Witness ==
    /\ terminal = "Closed"
    /\ nc = "closed" /\ d = "closed"
    /\ \E t \in Tasks : cp[t] = "sending" /\ outcome[t] = "err"

(* C20: whatever the first outcome and whichever task reported it, a       *)
(* bridged session ends with both connections closed, nothing logged and   *)
(* no response written.                                                    *)
C20_OutcomeIgnored ==
    /\ (terminal = "Closed") =>
          (d = "closed" /\ nc = "closed" /\ logs = <<>> /\ resp = <<>>)
    /\ (recvCount = 1 /\ pc # "Returned") =>
          (pc \in {"CloseBackend", "CloseClient"} /\ logs = <<>> /\ resp = <<>>)

C20_Witness ==
    /\ terminal = "Closed"
    /\ cp["b2c"] = "exited" /\ outcome["b2c"] = "err"
    /\ cp["c2b"] = "copying"
    /\ logs = <<>>

====
